---- MODULE Spec2Model ----
(***************************************************************************)
(* Model of graph.py: the load -> clean -> join -> KPI -> chart pipeline.  *)
(*                                                                         *)
(* Conventions                                                             *)
(*   - a nullable value is a sequence: <<>> is the missing marker (NaN,    *)
(*     NaT, None) and a present value is a non-empty sequence;             *)
(*   - a float is an exact reduced fraction <<n, d>> with d > 0, and       *)
(*     <<1, 0>> / <<-1, 0>> stand for +inf / -inf;                         *)
(*   - a timestamp is <<y * 10000 + m * 100 + d>>;                         *)
(*   - text is a sequence of one-character strings;                        *)
(*   - a DataFrame is a sequence of records, each with its index label     *)
(*     in the field idx.                                                   *)
(***************************************************************************)
EXTENDS Integers, Sequences, FiniteSets, TLC

VARIABLES
    files,          \* names of the CSV files present in the working directory
    cols,           \* column names of each CSV file
    plotErr,        \* charts whose plotting calls raise
    now,            \* wall clock, pd.Timestamp('now')
    rawSales, rawProducts, rawStores, rawCustomers, rawExchange,  \* CSV contents
    pc,             \* position of the main program
    df_sales, df_products, df_stores, df_customers, df_exchange,  \* main's locals
    df_full,        \* df_final / df_full with its column names
    console,        \* messages printed so far
    charts          \* charts shown so far (plt.show())

vars == << files, cols, plotErr, now,
           rawSales, rawProducts, rawStores, rawCustomers, rawExchange,
           pc, df_sales, df_products, df_stores, df_customers, df_exchange,
           df_full, console, charts >>

inputs == << files, cols, plotErr, now,
             rawSales, rawProducts, rawStores, rawCustomers, rawExchange >>

-----------------------------------------------------------------------------
(* Missing markers *)

NaN == << >>
NaT == << >>
None == << >>
NA == "<NA>"

Some(x) == << x >>

-----------------------------------------------------------------------------
(* Floats as exact fractions *)

Abs(n) == IF n < 0 THEN -n ELSE n

RECURSIVE GCD(_, _)
GCD(a, b) == IF b = 0 THEN a ELSE GCD(b, a % b)

Frac(n, d) ==
    IF d = 0
    THEN (IF n = 0 THEN NaN ELSE IF n > 0 THEN << 1, 0 >> ELSE << -1, 0 >>)
    ELSE LET g == GCD(Abs(n), Abs(d))
             s == IF d < 0 THEN -1 ELSE 1
         IN  << (s * n) \div g, (s * d) \div g >>

Zero == Frac(0, 1)
Hundred == Frac(100, 1)

IsInf(a) == a # NaN /\ a[2] = 0

FMul(a, b) ==
    IF a = NaN \/ b = NaN THEN NaN
    ELSE Frac(a[1] * b[1], IF IsInf(a) \/ IsInf(b) THEN 0 ELSE a[2] * b[2])

FSub(a, b) ==
    IF a = NaN \/ b = NaN THEN NaN
    ELSE IF IsInf(a) \/ IsInf(b)
         THEN (IF IsInf(a) /\ IsInf(b)
               THEN (IF a = b THEN NaN ELSE a)
               ELSE IF IsInf(a) THEN a ELSE Frac(-b[1], 0))
         ELSE Frac(a[1] * b[2] - b[1] * a[2], a[2] * b[2])

\* numpy float division: x/0 is +-inf, 0/0 is NaN, no exception
FDiv(a, b) ==
    IF a = NaN \/ b = NaN THEN NaN
    ELSE IF IsInf(b) THEN (IF IsInf(a) THEN NaN ELSE Zero)
    ELSE IF IsInf(a) THEN Frac(a[1] * (IF b[1] < 0 THEN -1 ELSE 1), 0)
    ELSE Frac(a[1] * b[2], a[2] * b[1])

-----------------------------------------------------------------------------
(* Dates *)

IsLeap(y) == (y % 4 = 0 /\ y % 100 # 0) \/ y % 400 = 0

DaysInMonth(m, y) ==
    IF m = 2 THEN (IF IsLeap(y) THEN 29 ELSE 28)
    ELSE IF m \in {4, 6, 9, 11} THEN 30 ELSE 31

\* pd.to_datetime(..., errors='coerce') on one cell <<month, day, year>>;
\* anything that is not a calendar date inside the Timestamp range is NaT
ToDatetime(raw) ==
    IF Len(raw) # 3 THEN NaT
    ELSE LET m == raw[1]
             d == raw[2]
             y == raw[3]
         IN  IF /\ y >= 1678 /\ y <= 2261
                /\ m >= 1 /\ m <= 12
                /\ d >= 1 /\ d <= DaysInMonth(m, y)
             THEN << y * 10000 + m * 100 + d >>
             ELSE NaT

Year(t) == t[1] \div 10000
Month(t) == (t[1] \div 100) % 100
Day(t) == t[1] % 100

\* days since the civil epoch of a timestamp
DayNumber(t) ==
    LET y == IF Month(t) <= 2 THEN Year(t) - 1 ELSE Year(t)
        mp == IF Month(t) <= 2 THEN Month(t) + 9 ELSE Month(t) - 3
    IN  365 * y + (y \div 4) - (y \div 100) + (y \div 400)
          + ((153 * mp + 2) \div 5) + Day(t) - 1

\* (now - birthday).dt.days // 365
AgeOf(t, birthday) ==
    IF birthday = NaT THEN NaN
    ELSE Frac((DayNumber(t) - DayNumber(birthday)) \div 365, 1)

-----------------------------------------------------------------------------
(* Text to number *)

Digits == { "0", "1", "2", "3", "4", "5", "6", "7", "8", "9" }

DigitVal(c) ==
    CASE c = "0" -> 0 [] c = "1" -> 1 [] c = "2" -> 2 [] c = "3" -> 3
      [] c = "4" -> 4 [] c = "5" -> 5 [] c = "6" -> 6 [] c = "7" -> 7
      [] c = "8" -> 8 [] c = "9" -> 9

RECURSIVE Pow10(_)
Pow10(k) == IF k = 0 THEN 1 ELSE 10 * Pow10(k - 1)

RECURSIVE DigitsValue(_)
DigitsValue(s) ==
    IF s = << >> THEN 0
    ELSE 10 * DigitsValue(SubSeq(s, 1, Len(s) - 1)) + DigitVal(s[Len(s)])

IsDigit(c) == c \in Digits

\* the decimal literals the float parser accepts: [+-] digits [. digits] or
\* [+-] . digits, with at least one digit; everything else is not a number
ParseNumeric(s) ==
    LET signed == s # << >> /\ s[1] \in { "-", "+" }
        body == IF signed THEN Tail(s) ELSE s
        dots == { i \in 1..Len(body) : body[i] = "." }
        digs == SelectSeq(body, IsDigit)
        wellFormed == /\ \A i \in 1..Len(body) : body[i] \in Digits \cup { "." }
                      /\ Cardinality(dots) <= 1
                      /\ digs # << >>
        decimals == IF dots = {} THEN 0
                    ELSE Len(body) - (CHOOSE i \in dots : TRUE)
        magnitude == Frac(DigitsValue(digs), Pow10(decimals))
    IN  IF ~wellFormed THEN NaN
        ELSE IF signed /\ s[1] = "-" THEN FSub(Zero, magnitude) ELSE magnitude

\* variant: only the currency symbol is removed
NotCurrencyMark_dollarOnly(c) == c # "$"

NotCurrencyMark(c) == c \notin { "$", "," }

\* .astype(str).replace({r'\$': '', ',': ''}, regex=True) on one cell
StripCurrency(s) == SelectSeq(s, NotCurrencyMark)

\* read_csv gives a column the dtype object when some non-empty cell is not a
\* number; otherwise the column is float64 and an empty cell is NaN
IsObjectColumn(cells) ==
    \E i \in 1..Len(cells) : cells[i] # << >> /\ ParseNumeric(cells[i]) = NaN

-----------------------------------------------------------------------------
(* DataFrame helpers *)

RECURSIVE Flatten(_)
Flatten(ss) == IF ss = << >> THEN << >> ELSE Head(ss) \o Flatten(Tail(ss))

\* variant: an inner join, a left row without a match is dropped
LeftMerge_inner(left, right, on, nulls) ==
    Flatten([ i \in 1..Len(left) |->
        LET hits == SelectSeq(right, LAMBDA r : \A k \in on : left[i][k] = r[k])
        IN  [ j \in 1..Len(hits) |->
                left[i] @@ [ f \in DOMAIN nulls |-> hits[j][f] ] ] ])

\* pd.merge(left, right, on=..., how='left'): every left row in order, once
\* per right row with equal key columns (in right order), or once with
\* nulls when none matches; nulls names the non-key columns of right
LeftMerge(left, right, on, nulls) ==
    Flatten([ i \in 1..Len(left) |->
        LET hits == SelectSeq(right, LAMBDA r : \A k \in on : left[i][k] = r[k])
        IN  IF hits = << >> THEN << left[i] @@ nulls >>
            ELSE [ j \in 1..Len(hits) |->
                    left[i] @@ [ f \in DOMAIN nulls |-> hits[j][f] ] ] ])

\* merged column names; a non-key column present on both sides is renamed
\* with the suffixes _x / _y, so its plain name no longer exists
MergeCols(L, R, keys) == (L \cup R) \ ((L \cap R) \ keys)

RowOrders(n) ==
    { p \in [1..n -> 1..n] : \A i, j \in 1..n : i # j => p[i] # p[j] }

\* the orders sort_values(by='Date') may return: ascending by date, rows
\* with equal dates in any order (the default quicksort is not stable)
SortedByDate(df) ==
    { [ i \in 1..Len(df) |-> df[p[i]] ] : p \in
        { q \in RowOrders(Len(df)) :
            \A i \in 1..(Len(df) - 1) : df[q[i]].Date[1] <= df[q[i + 1]].Date[1] } }

\* Series.ffill(): a missing cell takes the last earlier present value
RECURSIVE LastCurrency(_, _)
LastCurrency(df, i) ==
    IF i = 0 THEN NA
    ELSE IF df[i].Currency # NA THEN df[i].Currency
    ELSE LastCurrency(df, i - 1)

RECURSIVE LastExchange(_, _)
LastExchange(df, i) ==
    IF i = 0 THEN NaN
    ELSE IF df[i].Exchange # NaN THEN df[i].Exchange
    ELSE LastExchange(df, i - 1)

\* DataFrame.ffill() on the exchange table: every column is filled down the
\* row order, whatever the other columns of the row hold
FFill(df) ==
    [ i \in 1..Len(df) |->
        [ df[i] EXCEPT !.Currency = LastCurrency(df, i),
                       !.Exchange = LastExchange(df, i) ] ]

-----------------------------------------------------------------------------
(* Phase 1: load_and_clean_data *)

ReadOrder == << "Sales.csv", "Products.csv", "Stores.csv", "Customers.csv",
                "Exchange_Rates.csv" >>

\* the first pd.read_csv that raises FileNotFoundError, 0 when all succeed
FirstMissing(present) ==
    IF \A i \in 1..Len(ReadOrder) : ReadOrder[i] \in present THEN 0
    ELSE CHOOSE i \in 1..Len(ReadOrder) :
            /\ ReadOrder[i] \notin present
            /\ \A j \in 1..(i - 1) : ReadOrder[j] \in present

Msg(kind, detail, n) == [ kind |-> kind, detail |-> detail, n |-> n ]

WithIndex(rows) == [ i \in 1..Len(rows) |-> rows[i] @@ [ idx |-> i ] ]

\* a price column as read_csv types it: text when object, floats otherwise
ReadColumn(cells) ==
    IF IsObjectColumn(cells) THEN cells
    ELSE [ i \in 1..Len(cells) |-> ParseNumeric(cells[i]) ]

CostColumn(rows) == [ i \in 1..Len(rows) |-> rows[i].UnitCost ]
PriceColumn(rows) == [ i \in 1..Len(rows) |-> rows[i].UnitPrice ]

ReadProducts(raw) ==
    LET cost == ReadColumn(CostColumn(raw))
        price == ReadColumn(PriceColumn(raw))
    IN  [ i \in 1..Len(raw) |->
            [ raw[i] EXCEPT !.UnitCost = cost[i], !.UnitPrice = price[i] ] @@ [ idx |-> i ] ]

\* the columns the date conversions of lines 36-39 subscript, in order
DateColumnsPresent(c) ==
    /\ "Order Date" \in c.sales
    /\ "Open Date" \in c.stores
    /\ "Birthday" \in c.customers
    /\ "Date" \in c.exchange

ConvertOrderDate(df) == [ i \in 1..Len(df) |-> [ df[i] EXCEPT !.OrderDate = ToDatetime(@) ] ]
ConvertOpenDate(df) == [ i \in 1..Len(df) |-> [ df[i] EXCEPT !.OpenDate = ToDatetime(@) ] ]
ConvertBirthday(df) == [ i \in 1..Len(df) |-> [ df[i] EXCEPT !.Birthday = ToDatetime(@) ] ]
ConvertDate(df) == [ i \in 1..Len(df) |-> [ df[i] EXCEPT !.Date = ToDatetime(@) ] ]

HasOrderDate(r) == r.OrderDate # NaT
HasDate(r) == r.Date # NaT

CutoffYear == 2000

\* variant: the first year kept is the one after the cutoff
FromCutoffYear_strict(r) == Year(r.OrderDate) > CutoffYear

FromCutoffYear(r) == Year(r.OrderDate) >= CutoffYear

\* lines 44 and 55 on the sales table
DropInvalidOrderDates(df) == SelectSeq(df, HasOrderDate)
DropHistoricYears(df) == SelectSeq(df, FromCutoffYear)

\* lines 49-51: the tables the exchange-rate cleaning may return
CleanExchange(df) == { FFill(sorted) : sorted \in SortedByDate(SelectSeq(df, HasDate)) }

MainLoad ==
    /\ pc = "start"
    /\ LET banner == Append(console, Msg("phase", "FASE 1", 1))
           miss == FirstMissing(files)
       IN  IF miss # 0
           THEN \* except FileNotFoundError: report and return five None
                /\ pc' = "loaded"
                /\ console' = Append(banner, Msg("file_not_found", ReadOrder[miss], 0))
                /\ UNCHANGED << df_sales, df_products, df_stores, df_customers, df_exchange >>
           ELSE IF ~DateColumnsPresent(cols)
           THEN \* KeyError is not handled in load_and_clean_data nor in main
                /\ pc' = "crashed"
                /\ console' = Append(Append(banner, Msg("converting", "", 0)),
                                     Msg("traceback", "KeyError", 1))
                /\ UNCHANGED << df_sales, df_products, df_stores, df_customers, df_exchange >>
           ELSE LET parsed == ConvertOrderDate(WithIndex(rawSales))
                    dated == DropInvalidOrderDates(parsed)
                    kept == DropHistoricYears(dated)
                    m1 == Append(banner, Msg("converting", "", 0))
                    m2 == IF Len(dated) < Len(parsed)
                          THEN Append(m1, Msg("removed_invalid_dates", "", Len(parsed) - Len(dated)))
                          ELSE m1
                IN  /\ pc' = "loaded"
                    /\ df_sales' = Some(kept)
                    /\ df_products' = Some(ReadProducts(rawProducts))
                    /\ df_stores' = Some(ConvertOpenDate(WithIndex(rawStores)))
                    /\ df_customers' = Some(ConvertBirthday(WithIndex(rawCustomers)))
                    /\ \E cleaned \in CleanExchange(ConvertDate(WithIndex(rawExchange))) :
                          df_exchange' = Some(cleaned)
                    /\ console' = Append(m2, Msg("removed_historic_years", "",
                                                 Len(dated) - Len(kept)))
    /\ UNCHANGED << inputs, df_full, charts >>

-----------------------------------------------------------------------------
(* Phase 2: perform_strategic_analysis *)

\* lines 75-81 on the products table; a column whose dtype is not object is
\* left as read
CleanCost(raw, df) ==
    IF IsObjectColumn(CostColumn(raw))
    THEN [ i \in 1..Len(df) |->
            [ df[i] EXCEPT !.UnitCost = ParseNumeric(StripCurrency(@)) ] ]
    ELSE df

CleanPrice(raw, df) ==
    IF IsObjectColumn(PriceColumn(raw))
    THEN [ i \in 1..Len(df) |->
            [ df[i] EXCEPT !.UnitPrice = ParseNumeric(StripCurrency(@)) ] ]
    ELSE df

ProductNulls == [ Category |-> NA, UnitCost |-> NaN, UnitPrice |-> NaN ]
StoreNulls == [ SquareMeters |-> NaN, OpenDate |-> NaT ]
CustomerNulls == [ Birthday |-> NaT ]
RateNulls == [ ExchangeRate |-> NaN ]

\* line 89 on the rows
RenameExchangeRows(df) ==
    [ i \in 1..Len(df) |->
        [ OrderDate |-> df[i].Date, CurrencyCode |-> df[i].Currency,
          ExchangeRate |-> df[i].Exchange ] ]

\* variant: the rate is looked up by date alone
RateKeys_dateOnly == { "OrderDate" }

\* line 92
RateKeys == { "OrderDate", "CurrencyCode" }

DefaultRate == Frac(1, 1)

\* line 95
FillRate(r) == [ r EXCEPT !.ExchangeRate = IF @ = NaN THEN DefaultRate ELSE @ ]

\* variant: the quotient without the guard
Margin_unguarded(revenue, profit) == FMul(FDiv(profit, revenue), Hundred)

\* lines 103-107: np.where evaluates the quotient for every row and keeps it
\* where the revenue differs from 0 (NaN differs from 0)
Margin(revenue, profit) ==
    LET quotient == FMul(FDiv(profit, revenue), Hundred)
    IN  IF revenue # Zero THEN quotient ELSE Zero

\* variant: the revenue is taken from the cost column
Revenue_fromCost(r) == FMul(r.Quantity, r.UnitCost)

Revenue(r) == FMul(r.Quantity, r.UnitPrice)
Cost(r) == FMul(r.Quantity, r.UnitCost)

\* lines 98-107 on one row
WithKpis(r) ==
    LET revenue == Revenue(r)
        cost == Cost(r)
        profit == FSub(revenue, cost)
    IN  r @@ [ TotalRevenue |-> revenue, TotalCost |-> cost, TotalProfit |-> profit,
               ProfitMargin |-> Margin(revenue, profit), Age |-> NaN ]

\* lines 84-107 on the rows
Enrich(sales, products, stores, customers, exchange) ==
    LET m1 == LeftMerge(sales, products, { "ProductKey" }, ProductNulls)
        m2 == LeftMerge(m1, stores, { "StoreKey" }, StoreNulls)
        m3 == LeftMerge(m2, customers, { "CustomerKey" }, CustomerNulls)
        m4 == LeftMerge(m3, RenameExchangeRows(exchange), RateKeys, RateNulls)
    IN  [ i \in 1..Len(m4) |->
            [ WithKpis(FillRate(m4[i])) EXCEPT !.idx = i ] ]

\* line 89
RenameExchange(C) ==
    (C \ { "Date", "Currency", "Exchange" })
      \cup (IF "Date" \in C THEN { "Order Date" } ELSE {})
      \cup (IF "Currency" \in C THEN { "Currency Code" } ELSE {})
      \cup (IF "Exchange" \in C THEN { "ExchangeRate" } ELSE {})

PriceColumns == { "Unit Cost USD", "Unit Price USD" }

\* column names after each merge, and whether every subscripted or joined
\* column exists at the point where the code uses it
Cols1(c) == MergeCols(c.sales, c.products, { "ProductKey" })
Cols2(c) == MergeCols(Cols1(c), c.stores, { "StoreKey" })
Cols3(c) == MergeCols(Cols2(c), c.customers, { "CustomerKey" })
Cols4(c) == MergeCols(Cols3(c), RenameExchange(c.exchange), { "Order Date", "Currency Code" })

JoinColumnsPresent(c) ==
    /\ "ProductKey" \in c.sales \cap c.products
    /\ "StoreKey" \in Cols1(c) \cap c.stores
    /\ "CustomerKey" \in Cols2(c) \cap c.customers
    /\ { "Order Date", "Currency Code" } \subseteq Cols3(c) \cap RenameExchange(c.exchange)
    /\ { "ExchangeRate", "Quantity" } \cup PriceColumns \subseteq Cols4(c)

KpiColumns == { "Total Revenue USD", "Total Cost USD", "Total Profit USD", "Profit Margin %" }

\* variant: main does not test the result of load_and_clean_data
SalesLoaded_unchecked == TRUE

\* line 211
SalesLoaded == df_sales # None

MainAnalysis ==
    /\ pc = "loaded"
    /\ SalesLoaded
    /\ LET m0 == Append(Append(console, Msg("loaded", "", 0)), Msg("phase", "FASE 2", 2))
       IN  IF df_products = None
           THEN \* subscripting None raises TypeError
                /\ pc' = "crashed"
                /\ console' = Append(m0, Msg("traceback", "TypeError", 2))
                /\ UNCHANGED << df_products, df_full >>
           ELSE IF "Unit Cost USD" \notin cols.products
           THEN /\ pc' = "crashed"
                /\ console' = Append(m0, Msg("traceback", "KeyError", 2))
                /\ UNCHANGED << df_products, df_full >>
           ELSE IF "Unit Price USD" \notin cols.products
           THEN /\ pc' = "crashed"
                /\ console' = Append(m0, Msg("traceback", "KeyError", 2))
                /\ df_products' = Some(CleanCost(rawProducts, df_products[1]))
                /\ UNCHANGED df_full
           ELSE LET cleaned == CleanPrice(rawProducts, CleanCost(rawProducts, df_products[1]))
                IN  /\ df_products' = Some(cleaned)
                    /\ IF ~JoinColumnsPresent(cols)
                       THEN /\ pc' = "crashed"
                            /\ console' = Append(m0, Msg("traceback", "KeyError", 2))
                            /\ UNCHANGED df_full
                       ELSE /\ pc' = "enriched"
                            /\ console' = m0
                            /\ df_full' = Some([ cols |-> Cols4(cols) \cup KpiColumns,
                                                 rows |-> Enrich(df_sales[1], cleaned, df_stores[1],
                                                                 df_customers[1], df_exchange[1]) ])
    /\ UNCHANGED << inputs, df_sales, df_stores, df_customers, df_exchange, charts >>

-----------------------------------------------------------------------------
(* Phase 3: generate_visualizations *)

Chart1Columns == { "Category", "Total Revenue USD", "Total Profit USD", "Quantity" }
Chart2Columns == { "StoreKey", "Square Meters", "State", "Country", "Total Revenue USD" }
Chart3Columns == { "Birthday", "Total Revenue USD" }

\* line 187
WithAge(rows, t) == [ i \in 1..Len(rows) |-> [ rows[i] EXCEPT !.Age = AgeOf(t, rows[i].Birthday) ] ]

Chart1 ==
    /\ pc = "enriched"
    /\ pc' = "chart1"
    /\ IF ~(Chart1Columns \subseteq df_full[1].cols)
       THEN /\ console' = Append(Append(console, Msg("phase", "FASE 3", 3)),
                                 Msg("chart_failed", "KeyError", 1))
            /\ UNCHANGED charts
       ELSE IF 1 \in plotErr
       THEN /\ console' = Append(Append(Append(console, Msg("phase", "FASE 3", 3)),
                                        Msg("category_stats", "", 0)),
                                 Msg("chart_failed", "plot error", 1))
            /\ UNCHANGED charts
       ELSE /\ console' = Append(Append(console, Msg("phase", "FASE 3", 3)),
                                 Msg("category_stats", "", 0))
            /\ charts' = Append(charts, 1)
    /\ UNCHANGED << inputs, df_sales, df_products, df_stores, df_customers, df_exchange,
                    df_full >>

Reported(kind) == \E i \in 1..Len(console) : console[i].kind = kind

\* variant: a failed chart ends generate_visualizations
Chart2_abort ==
    /\ pc = "chart1"
    /\ IF Reported("chart_failed")
       THEN /\ pc' = "done"
            /\ UNCHANGED << console, charts >>
       ELSE /\ pc' = "chart2"
            /\ IF ~(Chart2Columns \subseteq df_full[1].cols) \/ 2 \in plotErr
               THEN /\ console' = Append(console, Msg("chart_failed", "KeyError", 2))
                    /\ UNCHANGED charts
               ELSE /\ console' = Append(console, Msg("store_stats", "", 0))
                    /\ charts' = Append(charts, 2)
    /\ UNCHANGED << inputs, df_sales, df_products, df_stores, df_customers, df_exchange,
                    df_full >>

Chart2 ==
    /\ pc = "chart1"
    /\ pc' = "chart2"
    /\ IF ~(Chart2Columns \subseteq df_full[1].cols)
       THEN /\ console' = Append(console, Msg("chart_failed", "KeyError", 2))
            /\ UNCHANGED charts
       ELSE IF 2 \in plotErr
       THEN /\ console' = Append(Append(console, Msg("store_stats", "", 0)),
                                 Msg("chart_failed", "plot error", 2))
            /\ UNCHANGED charts
       ELSE /\ console' = Append(console, Msg("store_stats", "", 0))
            /\ charts' = Append(charts, 2)
    /\ UNCHANGED << inputs, df_sales, df_products, df_stores, df_customers, df_exchange,
                    df_full >>

Chart3 ==
    /\ pc = "chart2"
    /\ pc' = "done"
    /\ IF ~(Chart3Columns \subseteq df_full[1].cols)
       THEN /\ console' = Append(Append(console, Msg("chart_failed", "KeyError", 3)),
                                 Msg("finished", "", 0))
            /\ UNCHANGED << charts, df_full >>
       ELSE /\ df_full' = Some([ cols |-> df_full[1].cols \cup { "Age" },
                                 rows |-> WithAge(df_full[1].rows, now) ])
            /\ IF 3 \in plotErr
               THEN /\ console' = Append(Append(console, Msg("chart_failed", "plot error", 3)),
                                         Msg("finished", "", 0))
                    /\ UNCHANGED charts
               ELSE /\ charts' = Append(charts, 3)
                    /\ console' = Append(console, Msg("finished", "", 0))
    /\ UNCHANGED << inputs, df_sales, df_products, df_stores, df_customers, df_exchange >>

Next == MainLoad \/ MainAnalysis \/ Chart1 \/ Chart2 \/ Chart3

-----------------------------------------------------------------------------
(* Inputs *)

MaxSales == 2
MaxDim == 2
MaxRates == 2
MaxLen == 3

SeqsUpTo(S, n) == UNION { [1..k -> S] : k \in 0..n }

FileNames == { ReadOrder[i] : i \in 1..Len(ReadOrder) }

\* the columns the program reads, with the customer attributes reduced to
\* the key and the birthday
PlainSchema ==
    [ sales |-> { "Order Date", "ProductKey", "StoreKey", "CustomerKey", "Currency Code",
                  "Quantity" },
      products |-> { "ProductKey", "Category", "Unit Cost USD", "Unit Price USD" },
      stores |-> { "StoreKey", "State", "Country", "Square Meters", "Open Date" },
      customers |-> { "CustomerKey", "Birthday" },
      exchange |-> { "Date", "Currency", "Exchange" } ]

Without(table, column) == [ PlainSchema EXCEPT ![table] = @ \ { column } ]

Schemas ==
    { PlainSchema,
      [ PlainSchema EXCEPT !.customers = @ \cup { "State", "Country" } ],
      Without("sales", "Order Date"), Without("sales", "Quantity"),
      Without("products", "Unit Cost USD"), Without("products", "Unit Price USD"),
      Without("products", "Category"), Without("stores", "Square Meters") }

Clock == { << 20240601 >> }

Text(str) ==
    CASE str = "$10.00" -> << "$", "1", "0", ".", "0", "0" >>
      [] str = "$6.00" -> << "$", "6", ".", "0", "0" >>
      [] str = "10.00" -> << "1", "0", ".", "0", "0" >>
      [] str = "6.00" -> << "6", ".", "0", "0" >>
      [] str = "0" -> << "0" >>
      [] str = "n/a" -> << "n", "/", "a" >>
      [] str = "$1,234.50" -> << "$", "1", ",", "2", "3", "4", ".", "5", "0" >>

SalesRow(date, product, store, customer, currency, quantity) ==
    [ OrderDate |-> date, ProductKey |-> product, StoreKey |-> store,
      CustomerKey |-> customer, CurrencyCode |-> currency, Quantity |-> quantity ]

ProductRow(key, cost, price) ==
    [ ProductKey |-> key, Category |-> "Computers", UnitCost |-> cost, UnitPrice |-> price ]

RateRow(date, currency, rate) == [ Date |-> date, Currency |-> currency, Exchange |-> rate ]

DefSales == << SalesRow(<< 6, 1, 2021 >>, 1, 1, 1, "EUR", Frac(3, 1)) >>
DefProducts == << ProductRow(1, Text("$6.00"), Text("$10.00")) >>
DefStores == << [ StoreKey |-> 1, SquareMeters |-> Frac(500, 1), OpenDate |-> << 1, 1, 2010 >> ] >>
DefCustomers == << [ CustomerKey |-> 1, Birthday |-> << 6, 1, 2000 >> ] >>
DefExchange == << RateRow(<< 6, 1, 2021 >>, "USD", Frac(1, 1)) >>

InitWith(F, C, P, S, Pr, St, Cu, Ex) ==
    /\ files \in F
    /\ cols \in C
    /\ plotErr \in P
    /\ now \in Clock
    /\ rawSales \in S
    /\ rawProducts \in Pr
    /\ rawStores \in St
    /\ rawCustomers \in Cu
    /\ rawExchange \in Ex
    /\ pc = "start"
    /\ df_sales = None
    /\ df_products = None
    /\ df_stores = None
    /\ df_customers = None
    /\ df_exchange = None
    /\ df_full = None
    /\ console = << >>
    /\ charts = << >>

\* the environment of a run: which files exist, which columns they have,
\* which plotting calls raise
InitRun ==
    InitWith(SUBSET FileNames, Schemas, SUBSET { 1, 2, 3 },
             { DefSales }, { DefProducts }, { DefStores }, { DefCustomers }, { DefExchange })

SpecRun == InitRun /\ [][Next]_vars

Spec == SpecRun

\* order dates: missing, the 00/00/0000 placeholder, a day that does not
\* exist, 1916, the last day of 1999, the first of 2000, a recent day, a
\* day after the clock
RawOrderDates ==
    { << >>, << 0, 0, 0 >>, << 2, 30, 2021 >>, << 1, 1, 1916 >>, << 12, 31, 1999 >>,
      << 1, 1, 2000 >>, << 6, 1, 2021 >>, << 1, 1, 2099 >> }

InitSales ==
    InitWith({ FileNames }, { PlainSchema }, { {} },
             SeqsUpTo({ SalesRow(d, 1, 1, 1, "EUR", Frac(3, 1)) : d \in RawOrderDates }, MaxSales),
             { DefProducts }, { DefStores }, { DefCustomers }, { DefExchange })

SpecSales == InitSales /\ [][Next]_vars

RateDates == { << >>, << 1, 1, 2021 >>, << 1, 3, 2021 >>, << 1, 5, 2021 >> }
RateValues == { NaN, Frac(110, 100), Frac(120, 100) }
RateRows == { RateRow(d, c, x) : d \in RateDates, c \in { "EUR", "USD" }, x \in RateValues }

ForwardFillExample ==
    << RateRow(<< 1, 1, 2021 >>, "EUR", Frac(110, 100)),
       RateRow(<< 1, 5, 2021 >>, "EUR", Frac(120, 100)),
       RateRow(<< 1, 3, 2021 >>, "EUR", NaN) >>

InitRates ==
    InitWith({ FileNames }, { PlainSchema }, { {} },
             { << >> } \cup { << SalesRow(d, 1, 1, 1, c, Frac(3, 1)) >> :
                                d \in { << 1, 1, 2021 >>, << 1, 3, 2021 >> }, c \in { "EUR", "USD" } },
             { DefProducts }, { DefStores }, { DefCustomers },
             SeqsUpTo(RateRows, MaxRates) \cup { ForwardFillExample })

SpecRates == InitRates /\ [][Next]_vars

\* join keys: a sale that matches every table, one without a product, one
\* without a store and a customer, one that matches nothing; the product,
\* store and customer tables hold key 1 up to MaxDim times, the rate table
\* holds its row up to twice
JoinSalesRows ==
    { SalesRow(<< 6, 1, 2021 >>, 1, 1, 1, "USD", Frac(3, 1)),
      SalesRow(<< 6, 1, 2021 >>, 2, 1, 1, "USD", Frac(3, 1)),
      SalesRow(<< 6, 1, 2021 >>, 1, 2, 2, "USD", Frac(3, 1)),
      SalesRow(<< 6, 2, 2021 >>, 2, 2, 2, "EUR", Frac(3, 1)) }

InitJoin ==
    InitWith({ FileNames }, { PlainSchema }, { {} },
             SeqsUpTo(JoinSalesRows, MaxSales),
             SeqsUpTo({ DefProducts[1] }, MaxDim),
             SeqsUpTo({ DefStores[1] }, MaxDim),
             SeqsUpTo({ DefCustomers[1] }, MaxDim),
             { << >>, DefExchange, DefExchange \o DefExchange })

SpecJoin == InitJoin /\ [][Next]_vars

\* KPI inputs: quantities 0, 3 and missing, a matched or unmatched product,
\* prices and costs as currency text, plain numbers, zero and non-numbers
KpiSalesRows ==
    { SalesRow(<< 6, 1, 2021 >>, k, 1, 1, "EUR", q) : k \in { 1, 2 }, q \in { Zero, Frac(3, 1), NaN } }

KpiPrices == { Text("$10.00"), Text("10.00"), Text("0"), Text("n/a"), Text("$1,234.50") }
KpiCosts == { Text("$6.00"), Text("6.00"), Text("0"), Text("n/a") }

InitKpi ==
    InitWith({ FileNames }, { PlainSchema }, { {} },
             SeqsUpTo(KpiSalesRows, MaxSales),
             { << ProductRow(1, c, p) >> : c \in KpiCosts, p \in KpiPrices },
             { DefStores }, { DefCustomers }, { DefExchange })

SpecKpi == InitKpi /\ [][Next]_vars

\* price cells: every text of up to MaxLen characters over the alphabet,
\* and the formatted price of the specification
PriceAlphabet == { "$", ",", ".", "-", "0", "1", "x" }

InitPrice ==
    InitWith({ FileNames }, { PlainSchema }, { {} },
             { DefSales },
             { << ProductRow(1, Text("$6.00"), p) >> :
                 p \in SeqsUpTo(PriceAlphabet, MaxLen) \cup { Text("$1,234.50") } },
             { DefStores }, { DefCustomers }, { DefExchange })

SpecPrice == InitPrice /\ [][Next]_vars

-----------------------------------------------------------------------------
(* Properties *)

Range(f) == { f[i] : i \in DOMAIN f }

Printed(kind, n) == \E i \in 1..Len(console) : console[i].kind = kind /\ console[i].n = n
ChartFailed(k) == Printed("chart_failed", k)
ChartShown(k) == k \in Range(charts)
Traceback == Reported("traceback")
Loaded == pc # "start" /\ df_sales # None
Enriched == df_full # None

\* C1 (as stated): every row of the cleaned sales table has an order date
\* that parsed and lies between 2000-01-01 and the clock, and no input row
\* with an unparseable, missing, pre-2000 or future order date survives.
C1_OrderDateWithinRange ==
    Loaded =>
        /\ \A i \in 1..Len(df_sales[1]) :
              /\ df_sales[1][i].OrderDate # NaT
              /\ df_sales[1][i].OrderDate[1] >= 20000101
              /\ df_sales[1][i].OrderDate[1] <= now[1]
        /\ \A i \in 1..Len(rawSales) :
              rawSales[i].OrderDate \in { << >>, << 0, 0, 0 >>, << 2, 30, 2021 >>, << 1, 1, 1916 >>,
                                          << 12, 31, 1999 >>, << 1, 1, 2099 >> }
                => ~\E j \in 1..Len(df_sales[1]) : df_sales[1][j].idx = i

\* C1 (amended): every row of the cleaned sales table has an order date
\* that parsed and is on or after 2000-01-01; an input row survives, in
\* input order, exactly when its date parses and is not before 2000-01-01,
\* so a row dated after the clock is kept.
C1_OrderDateFromCutoff ==
    Loaded =>
        /\ \A i \in 1..Len(df_sales[1]) :
              /\ df_sales[1][i].OrderDate # NaT
              /\ df_sales[1][i].OrderDate[1] >= 20000101
        /\ \A i \in 1..Len(rawSales) :
              rawSales[i].OrderDate \in { << 1, 1, 2000 >>, << 6, 1, 2021 >>, << 1, 1, 2099 >> }
                <=> \E j \in 1..Len(df_sales[1]) : df_sales[1][j].idx = i
        /\ \A i, j \in 1..Len(df_sales[1]) : i < j => df_sales[1][i].idx < df_sales[1][j].idx

C1_Witness ==
    /\ Loaded
    /\ Len(rawSales) = 2
    /\ rawSales[1].OrderDate = << 0, 0, 0 >>
    /\ Len(df_sales[1]) = 1
    /\ df_sales[1][1].OrderDate = << 20990101 >>

\* C7: when one of the five files is absent, the run prints a
\* file-not-found message naming an absent file and ends there: the five
\* tables are None, no enriched table exists, nothing of phase 2 or 3 is
\* printed and no chart is shown.
C7_MissingFileAborts ==
    (files # FileNames /\ pc # "start") =>
        /\ pc = "loaded"
        /\ \E i \in 1..Len(console) :
              /\ console[i].kind = "file_not_found"
              /\ console[i].detail \in FileNames \ files
        /\ df_sales = None /\ df_products = None /\ df_stores = None
        /\ df_customers = None /\ df_exchange = None
        /\ df_full = None
        /\ charts = << >>
        /\ ~Printed("phase", 2) /\ ~Printed("phase", 3) /\ ~Traceback

C7_Witness ==
    /\ files = FileNames \ { "Customers.csv", "Exchange_Rates.csv" }
    /\ pc = "loaded"
    /\ console[Len(console)] = Msg("file_not_found", "Customers.csv", 0)

\* C8 (as stated): once a stage has failed with something other than a
\* missing file, the run has produced no chart and produces none.
C8_FailureMeansNoChart ==
    (Traceback \/ \E k \in 1..3 : ChartFailed(k)) => charts = << >>

\* C8 (amended): a failure other than a missing file raised while loading
\* or enriching is not caught; it ends the run with a traceback and without
\* any chart.  A failure while generating one chart is caught by that
\* chart's own handler and reported; that chart is not shown, and every
\* other chart is still attempted, so at the end of the run each of the
\* three charts is either shown or reported as failed.
C8_FailureIsolatedPerChart ==
    /\ Traceback => pc = "crashed" /\ charts = << >> /\ df_full = None
    /\ pc = "crashed" => Traceback
    /\ \A k \in 1..3 : ChartFailed(k) => ~ChartShown(k)
    /\ pc = "done" => \A k \in 1..3 : ChartFailed(k) \/ ChartShown(k)

C8_Witness ==
    /\ pc = "done"
    /\ ChartFailed(1)
    /\ charts = << 2, 3 >>

Rows == df_full[1].rows

ProductKeys == { df_products[1][i].ProductKey : i \in 1..Len(df_products[1]) }
StoreKeys == { df_stores[1][i].StoreKey : i \in 1..Len(df_stores[1]) }
CustomerKeys == { df_customers[1][i].CustomerKey : i \in 1..Len(df_customers[1]) }

UniqueDimensionKeys ==
    /\ \A i, j \in 1..Len(df_products[1]) :
          df_products[1][i].ProductKey = df_products[1][j].ProductKey => i = j
    /\ \A i, j \in 1..Len(df_stores[1]) :
          df_stores[1][i].StoreKey = df_stores[1][j].StoreKey => i = j
    /\ \A i, j \in 1..Len(df_customers[1]) :
          df_customers[1][i].CustomerKey = df_customers[1][j].CustomerKey => i = j
    /\ \A i, j \in 1..Len(df_exchange[1]) :
          ( /\ df_exchange[1][i].Date = df_exchange[1][j].Date
            /\ df_exchange[1][i].Currency = df_exchange[1][j].Currency ) => i = j

C9_DuplicatesNeverInflate ==
    Enriched => Len(Rows) = Len(df_sales[1])

\* C3: in every enriched row the margin is 0 when the revenue is 0, is
\* profit / revenue * 100 when the revenue is a non-zero number (missing
\* when the profit is missing), and is missing when the revenue is missing;
\* the computation never ends the run.
C3_MarginGuard ==
    /\ pc # "crashed"
    /\ Enriched =>
        \A i \in 1..Len(Rows) :
            LET r == Rows[i]
            IN  /\ r.TotalRevenue = Zero => r.ProfitMargin = Zero
                /\ r.TotalRevenue = NaN => r.ProfitMargin = NaN
                /\ (r.TotalRevenue \notin { Zero, NaN } /\ r.TotalProfit = NaN)
                      => r.ProfitMargin = NaN
                /\ (r.TotalRevenue \notin { Zero, NaN } /\ r.TotalProfit # NaN) =>
                      /\ r.ProfitMargin # NaN
                      /\ r.ProfitMargin[2] > 0
                      /\ r.ProfitMargin[1] * r.TotalRevenue[1] * r.TotalProfit[2]
                           = 100 * r.TotalProfit[1] * r.ProfitMargin[2] * r.TotalRevenue[2]

C3_Witness ==
    /\ Enriched
    /\ Len(Rows) = 2
    /\ Rows[1].TotalRevenue = Zero /\ Rows[1].TotalProfit = Zero /\ Rows[1].ProfitMargin = Zero
    /\ Rows[2].TotalRevenue = Frac(30, 1) /\ Rows[2].ProfitMargin = Frac(40, 1)

\* C4: in every enriched row with a matched product the revenue is quantity
\* times the product's unit price, the cost is quantity times its unit cost
\* and the profit is revenue minus cost; the sale of 3 units at price 10.00
\* and cost 6.00 with no matching rate gets rate 1.0, revenue 30, cost 18,
\* profit 12 and margin 40.
C4_KpiArithmetic ==
    Enriched =>
        \A i \in 1..Len(Rows) :
            LET r == Rows[i]
            IN  /\ \A j \in 1..Len(df_products[1]) :
                      LET p == df_products[1][j]
                      IN  p.ProductKey = r.ProductKey =>
                            /\ r.TotalRevenue = FMul(r.Quantity, p.UnitPrice)
                            /\ r.TotalCost = FMul(r.Quantity, p.UnitCost)
                            /\ r.TotalProfit = FSub(r.TotalRevenue, r.TotalCost)
                /\ ( /\ r.Quantity = << 3, 1 >> /\ r.ProductKey = 1
                     /\ rawProducts[1].UnitPrice \in { Text("10.00"), Text("$10.00") }
                     /\ rawProducts[1].UnitCost \in { Text("6.00"), Text("$6.00") } )
                   => /\ r.ExchangeRate = << 1, 1 >>
                      /\ r.TotalRevenue = << 30, 1 >>
                      /\ r.TotalCost = << 18, 1 >>
                      /\ r.TotalProfit = << 12, 1 >>
                      /\ r.ProfitMargin = << 40, 1 >>

C4_Witness ==
    /\ Enriched
    /\ rawProducts[1].UnitPrice = Text("10.00") /\ rawProducts[1].UnitCost = Text("6.00")
    /\ Len(Rows) = 1
    /\ Rows[1].Quantity = << 3, 1 >> /\ Rows[1].ProductKey = 1
    /\ Rows[1].TotalProfit = << 12, 1 >>

Matches(r) ==
    { j \in 1..Len(df_exchange[1]) :
        /\ df_exchange[1][j].Date = r.OrderDate
        /\ df_exchange[1][j].Currency = r.CurrencyCode }

\* C6 (as stated): the rate of every enriched row is the rate of a cleaned
\* exchange row with exactly the row's order date and currency, is 1.0 when
\* there is no such row, and is never missing.
C6_RateOfExactMatch ==
    Enriched =>
        \A i \in 1..Len(Rows) :
            /\ Rows[i].ExchangeRate # NaN
            /\ IF Matches(Rows[i]) = {}
               THEN Rows[i].ExchangeRate = << 1, 1 >>
               ELSE \E j \in Matches(Rows[i]) : Rows[i].ExchangeRate = df_exchange[1][j].Exchange

\* C6 (amended): the rate of every enriched row is the rate of a cleaned
\* exchange row with exactly the row's order date and currency when that
\* rate is present, and is 1.0 when there is no such row or when the rate
\* of the matching row is still missing after cleaning; it is never missing.
C6_RateOfExactMatchOrDefault ==
    Enriched =>
        \A i \in 1..Len(Rows) :
            /\ Rows[i].ExchangeRate # NaN
            /\ IF Matches(Rows[i]) = {}
               THEN Rows[i].ExchangeRate = << 1, 1 >>
               ELSE \E j \in Matches(Rows[i]) :
                      Rows[i].ExchangeRate = IF df_exchange[1][j].Exchange = NaN THEN << 1, 1 >>
                                             ELSE df_exchange[1][j].Exchange

C6_Witness ==
    /\ Enriched
    /\ Len(Rows) = 1
    /\ Len(df_exchange[1]) = 2
    /\ df_exchange[1][1].Date[1] < Rows[1].OrderDate[1]
    /\ df_exchange[1][1].Currency = Rows[1].CurrencyCode
    /\ Matches(Rows[1]) = { 2 }
    /\ Rows[1].ExchangeRate = << 6, 5 >>

RawRate(i) == rawExchange[df_exchange[1][i].idx]

\* C5: after the exchange-rate cleaning no row with a missing date is left,
\* the rows are in ascending date order, and a row whose rate was missing
\* holds the rate of the closest earlier row of the same currency that had
\* a rate (and stays missing when there is none), never a rate of a row of
\* another currency.  The fill is judged on the rows whose date no other
\* row shares, where the position in the cleaned table is determined.
C5_ForwardFillPerCurrency ==
    Loaded =>
        /\ \A k \in 1..Len(rawExchange) :
              rawExchange[k].Date = << >>
                => ~\E i \in 1..Len(df_exchange[1]) : df_exchange[1][i].idx = k
        /\ \A i \in 1..(Len(df_exchange[1]) - 1) :
              df_exchange[1][i].Date[1] <= df_exchange[1][i + 1].Date[1]
        /\ \A i \in 1..Len(df_exchange[1]) :
              ( /\ RawRate(i).Exchange = NaN
                /\ RawRate(i).Currency # NA
                /\ \A j \in 1..Len(df_exchange[1]) :
                      j # i => df_exchange[1][j].Date # df_exchange[1][i].Date ) =>
                  LET prior == { j \in 1..(i - 1) :
                                   /\ RawRate(j).Currency = RawRate(i).Currency
                                   /\ RawRate(j).Exchange # NaN }
                  IN  IF prior = {} THEN df_exchange[1][i].Exchange = NaN
                      ELSE df_exchange[1][i].Exchange
                             = RawRate(CHOOSE j \in prior : \A k \in prior : k <= j).Exchange

\* C10: a price cell is cleaned by removing every '$' and ',' and reading
\* the rest as a decimal number: "$1,234.50" becomes 1234.50, a cell made of
\* digits, '$' and ',' becomes the number its digits spell, a cell without a
\* digit or with a letter becomes missing and not 0, and no cell ends the run.
C10_PriceCleaning ==
    /\ pc # "crashed"
    /\ Enriched =>
        \A i \in 1..Len(rawProducts) :
            LET raw == rawProducts[i].UnitPrice
                v == df_products[1][i].UnitPrice
            IN  /\ raw = Text("$1,234.50") => v = << 2469, 2 >>
                /\ (\A k \in 1..Len(raw) : raw[k] \notin Digits) => v = NaN
                /\ (\E k \in 1..Len(raw) : raw[k] = "x") => v = NaN
                /\ ( /\ \A k \in 1..Len(raw) : raw[k] \in Digits \cup { "$", "," }
                     /\ \E k \in 1..Len(raw) : raw[k] \in Digits )
                   => v = << DigitsValue(SelectSeq(raw, IsDigit)), 1 >>
                /\ rawProducts[i].UnitCost = Text("$6.00") => df_products[1][i].UnitCost = << 6, 1 >>

C10_Witness ==
    /\ Enriched
    /\ rawProducts[1].UnitPrice = Text("$1,234.50")
    /\ df_products[1][1].UnitPrice = << 2469, 2 >>
    /\ Rows[1].TotalRevenue = << 7407, 2 >>

====
